---- MODULE Spec2Model ----
(***************************************************************************)
(* Model of src/lib/clips.c, the C accessor layer of clipspy.               *)
(*                                                                         *)
(* Every function of the file forwards to one accessor macro of the CLIPS  *)
(* headers pulled in by `#include <clips.h>` (src/lib/clips.c:32).  The     *)
(* macros expand to plain field reads and assignments on DATA_OBJECT,      *)
(* struct multifield and struct deftemplate:                               *)
(*                                                                         *)
(*   GetpType(d)       (d)->type                                           *)
(*   SetpType(d,v)     (d)->type = (unsigned short) (v)                    *)
(*   GetpValue(d)      (d)->value                                          *)
(*   SetpValue(d,v)    (d)->value = (v), cast to a void pointer            *)
(*   GetpDOBegin(d)    (d)->begin + 1                                      *)
(*   SetpDOBegin(d,v)  (d)->begin = (long) ((v) - 1)                       *)
(*   GetpDOEnd(d)      (d)->end + 1                                        *)
(*   SetpDOEnd(d,v)    (d)->end = (long) ((v) - 1)                         *)
(*   GetpDOLength(d)   ((d)->end - (d)->begin) + 1                         *)
(*   GetMFType(m,i)    (m)->theFields[i-1].type                            *)
(*   SetMFType(m,i,v)  (m)->theFields[i-1].type = (unsigned short) (v)     *)
(*   GetMFValue(m,i)   (m)->theFields[i-1].value                           *)
(*   SetMFValue(m,i,v) (m)->theFields[i-1].value = (v), cast likewise      *)
(*   GetMFLength(m)    (m)->multifieldLength                               *)
(*                                                                         *)
(* A C function returning such an assignment returns the value stored,     *)
(* converted to the function's return type.  None of the functions has an  *)
(* error channel: the field `err` of `last` records which error an         *)
(* operation reported, and the code never reports one.                     *)
(***************************************************************************)
EXTENDS Integers, Sequences, FiniteSets

(* ---- bounds of the model ---------------------------------------------- *)

\* number of wrapper calls in one run
MaxOps == 3
\* number of fields every multifield is constructed with
MaxLen == 2
\* largest offset handed to set_data_begin / set_data_end
MaxOffset == 1

(* ---- program constants (type codes of the engine) --------------------- *)

FLOAT == 0
INTEGER == 1
SYMBOL == 2
\* STRING in the engine; the bare name is reserved in TLA+
STRING_T == 3
MULTIFIELD == 4
EXTERNAL_ADDRESS == 5
FACT_ADDRESS == 6

\* the seven defined kinds
Kinds == {FLOAT, INTEGER, SYMBOL, STRING_T, MULTIFIELD, EXTERNAL_ADDRESS, FACT_ADDRESS}

(* ---- objects ----------------------------------------------------------- *)

NULL == "null"
Cells == {"c1", "c2"}
HashNodes == {"h1"}
Multifields == {"m1"}
Templates == {"t1", "t2"}

\* the pointers a caller can pass as the value argument
Refs == {NULL} \cup HashNodes \cup Multifields

\* the `short type` arguments tried: three of the defined kinds (the code
\* treats no kind specially), the first undefined code and a negative one
TypeInputs == {FLOAT, SYMBOL, MULTIFIELD, 7, -1}

\* the `long begin` / `long end` arguments tried
RangeInputs == -1 .. (MaxOffset + 1)

\* the `long index` arguments tried: 0, the valid ones, length + 1
IndexInputs == 0 .. (MaxLen + 1)

(* ---- integer conversions ---------------------------------------------- *)

\* (unsigned short) v
ToUShort(v) == v % 65536

\* unsigned short -> short, as the return statement converts it
ToShort(u) == IF u >= 32768 THEN u - 65536 ELSE u

VARIABLES
    data,       \* DATA_OBJECT of each cell: type, value, begin, end
    mfLength,   \* multifieldLength of each multifield
    mfFields,   \* theFields of each multifield: sequence of [type, value]
    count,      \* reference count of each hash node
    implied,    \* implied flag of each deftemplate
    last,       \* the last call: operation, arguments, result
    ops         \* number of calls made

vars == <<data, mfLength, mfFields, count, implied, last, ops>>

\* a call record; unused argument fields keep these defaults
NoCall == [op |-> "none", obj |-> NULL, idx |-> 0, ival |-> 0, ref |-> NULL,
           ret |-> 0, rref |-> NULL, err |-> "none"]

Call(op, obj, idx, ival, ref, ret, rref) ==
    [op |-> op, obj |-> obj, idx |-> idx, ival |-> ival, ref |-> ref,
     ret |-> ret, rref |-> rref, err |-> "none"]

\* length recorded when the multifield was constructed = fields allocated
MFLen0(m) == MaxLen

Init ==
    /\ data = [c \in Cells |-> [type |-> 0, value |-> NULL, begin |-> 0, end |-> 0]]
    /\ mfLength = [m \in Multifields |-> MFLen0(m)]
    /\ mfFields = [m \in Multifields |->
                     [i \in 1 .. MFLen0(m) |-> [type |-> 0, value |-> NULL]]]
    /\ count = [h \in HashNodes |-> 0]
    /\ implied = [t \in Templates |-> IF t = "t2" THEN 1 ELSE 0]
    /\ last = NoCall
    /\ ops = 0

Step == ops < MaxOps /\ ops' = ops + 1

(* ---- Data Object ------------------------------------------------------- *)

GetpType(d) == ToShort(d.type)

get_data_type ==
    \E c \in Cells :
        /\ Step
        /\ last' = Call("get_data_type", c, 0, 0, NULL, GetpType(data[c]), NULL)
        /\ UNCHANGED <<data, mfLength, mfFields, count, implied>>

SetpType(d, type) == [d EXCEPT !.type = ToUShort(type)]

\* a setter that hands back the kind it replaced
SetpTypeResult_Previous(d, type) == ToShort(d.type)

\* value of the assignment expression, converted to the short returned
SetpTypeResult(d, type) == ToShort(ToUShort(type))

set_data_type ==
    \E c \in Cells, type \in TypeInputs :
        /\ Step
        /\ data' = [data EXCEPT ![c] = SetpType(data[c], type)]
        /\ last' = Call("set_data_type", c, 0, type, NULL,
                        SetpTypeResult(data[c], type), NULL)
        /\ UNCHANGED <<mfLength, mfFields, count, implied>>

GetpValue(d) == d.value

get_data_value ==
    \E c \in Cells :
        /\ Step
        /\ last' = Call("get_data_value", c, 0, 0, NULL, 0, GetpValue(data[c]))
        /\ UNCHANGED <<data, mfLength, mfFields, count, implied>>

\* a setter that loses the store
SetpValue_Dropped(d, value) == d

SetpValue(d, value) == [d EXCEPT !.value = value]

set_data_value ==
    \E c \in Cells, value \in Refs :
        /\ Step
        /\ data' = [data EXCEPT ![c] = SetpValue(data[c], value)]
        /\ last' = Call("set_data_value", c, 0, 0, value, 0, value)
        /\ UNCHANGED <<mfLength, mfFields, count, implied>>

GetpDOBegin(d) == d.begin + 1

get_data_begin ==
    \E c \in Cells :
        /\ Step
        /\ last' = Call("get_data_begin", c, 0, 0, NULL, GetpDOBegin(data[c]), NULL)
        /\ UNCHANGED <<data, mfLength, mfFields, count, implied>>

SetpDOBegin(d, begin) == [d EXCEPT !.begin = begin - 1]

set_data_begin ==
    \E c \in Cells, begin \in RangeInputs :
        /\ Step
        /\ data' = [data EXCEPT ![c] = SetpDOBegin(data[c], begin)]
        /\ last' = Call("set_data_begin", c, 0, begin, NULL, begin - 1, NULL)
        /\ UNCHANGED <<mfLength, mfFields, count, implied>>

GetpDOEnd(d) == d.end + 1

get_data_end ==
    \E c \in Cells :
        /\ Step
        /\ last' = Call("get_data_end", c, 0, 0, NULL, GetpDOEnd(data[c]), NULL)
        /\ UNCHANGED <<data, mfLength, mfFields, count, implied>>

SetpDOEnd(d, end) == [d EXCEPT !.end = end - 1]

set_data_end ==
    \E c \in Cells, end \in RangeInputs :
        /\ Step
        /\ data' = [data EXCEPT ![c] = SetpDOEnd(data[c], end)]
        /\ last' = Call("set_data_end", c, 0, end, NULL, end - 1, NULL)
        /\ UNCHANGED <<mfLength, mfFields, count, implied>>

\* a length that forgets that both offsets are inclusive
GetpDOLength_Exclusive(d) == d.end - d.begin

GetpDOLength(d) == (d.end - d.begin) + 1

get_data_length ==
    \E c \in Cells :
        /\ Step
        /\ last' = Call("get_data_length", c, 0, 0, NULL, GetpDOLength(data[c]), NULL)
        /\ UNCHANGED <<data, mfLength, mfFields, count, implied>>

(* ---- Multifield -------------------------------------------------------- *)

\* index addresses one of the fields allocated for the multifield; any other
\* index makes theFields[index-1] an access outside the array (undefined)
InBounds(m, index) == index \in 1 .. Len(mfFields[m])

\* what a read outside the array can yield: whatever the neighbouring
\* memory holds
StrayShorts == {ToShort(ToUShort(t)) : t \in TypeInputs}
StrayRefs == Refs

GetMFType(fields, index) == ToShort(fields[index].type)

get_multifield_type ==
    \E m \in Multifields, index \in IndexInputs :
        /\ Step
        /\ IF InBounds(m, index)
           THEN last' = Call("get_multifield_type", m, index, 0, NULL,
                             GetMFType(mfFields[m], index), NULL)
           ELSE \E r \in StrayShorts :
                    last' = Call("get_multifield_type", m, index, 0, NULL, r, NULL)
        /\ UNCHANGED <<data, mfLength, mfFields, count, implied>>

SetMFType(fields, index, type) == [fields EXCEPT ![index].type = ToUShort(type)]

\* theFields[-1].type lies on the low half-word of multifieldLength where
\* the header fields directly precede theFields (LP64, little endian)
ClobberLength(length, type) == (length - (length % 65536)) + ToUShort(type)

set_multifield_type ==
    \E m \in Multifields, index \in IndexInputs, type \in TypeInputs :
        /\ Step
        /\ last' = Call("set_multifield_type", m, index, type, NULL,
                        ToShort(ToUShort(type)), NULL)
        /\ IF InBounds(m, index)
           THEN /\ mfFields' = [mfFields EXCEPT ![m] = SetMFType(mfFields[m], index, type)]
                /\ UNCHANGED mfLength
           ELSE \* a store outside the array: it lands in memory the model
                \* does not hold, or (index 0) on the header of the multifield
                /\ UNCHANGED mfFields
                /\ \/ UNCHANGED mfLength
                   \/ /\ index = 0
                      /\ mfLength' = [mfLength EXCEPT ![m] = ClobberLength(mfLength[m], type)]
        /\ UNCHANGED <<data, count, implied>>

GetMFValue(fields, index) == fields[index].value

get_multifield_value ==
    \E m \in Multifields, index \in IndexInputs :
        /\ Step
        /\ IF InBounds(m, index)
           THEN last' = Call("get_multifield_value", m, index, 0, NULL, 0,
                             GetMFValue(mfFields[m], index))
           ELSE \E r \in StrayRefs :
                    last' = Call("get_multifield_value", m, index, 0, NULL, 0, r)
        /\ UNCHANGED <<data, mfLength, mfFields, count, implied>>

SetMFValue(fields, index, value) == [fields EXCEPT ![index].value = value]

set_multifield_value ==
    \E m \in Multifields, index \in IndexInputs, value \in Refs :
        /\ Step
        /\ last' = Call("set_multifield_value", m, index, 0, value, 0, value)
        /\ IF InBounds(m, index)
           THEN mfFields' = [mfFields EXCEPT ![m] = SetMFValue(mfFields[m], index, value)]
           ELSE \* a store outside the array: theFields[-1].value lies on the
                \* `next` link of the header, which the model does not hold
                UNCHANGED mfFields
        /\ UNCHANGED <<data, mfLength, count, implied>>

GetMFLength(m) == mfLength[m]

get_multifield_length ==
    \E m \in Multifields :
        /\ Step
        /\ last' = Call("get_multifield_length", m, 0, 0, NULL, GetMFLength(m), NULL)
        /\ UNCHANGED <<data, mfLength, mfFields, count, implied>>

(* ---- Extra ------------------------------------------------------------- *)

implied_deftemplate ==
    \E t \in Templates :
        /\ Step
        /\ last' = Call("implied_deftemplate", t, 0, 0, NULL, implied[t], NULL)
        /\ UNCHANGED <<data, mfLength, mfFields, count, implied>>

Next ==
    \/ get_data_type
    \/ set_data_type
    \/ get_data_value
    \/ set_data_value
    \/ get_data_begin
    \/ set_data_begin
    \/ get_data_end
    \/ set_data_end
    \/ get_data_length
    \/ get_multifield_type
    \/ set_multifield_type
    \/ get_multifield_value
    \/ set_multifield_value
    \/ get_multifield_length
    \/ implied_deftemplate

Spec == Init /\ [][Next]_vars

(* ---- helpers of the properties ----------------------------------------- *)

IndexedOps == {"get_multifield_type", "set_multifield_type",
               "get_multifield_value", "set_multifield_value"}
MFSetters == {"set_multifield_type", "set_multifield_value"}
DataSetters == {"set_data_type", "set_data_value", "set_data_begin", "set_data_end"}
Getters == {"get_data_type", "get_data_value", "get_data_begin", "get_data_end",
            "get_data_length", "get_multifield_type", "get_multifield_value",
            "get_multifield_length", "implied_deftemplate"}

\* the cells whose value pointer is the multifield m
Owners(m) == {c \in Cells : data[c].value = m}

(* ---- C1 ---------------------------------------------------------------- *)

\* C1: every indexed multifield accessor called with an index outside
\* [1, length] fails with IndexOutOfRangeError, and the two setters then leave
\* every element and the length of the multifield unchanged.
C1_IndexOutOfRange ==
    [][(last'.op \in IndexedOps /\ last'.idx \notin 1 .. mfLength[last'.obj])
         => /\ last'.err = "IndexOutOfRangeError"
            /\ mfFields' = mfFields
            /\ mfLength' = mfLength]_vars

(* ---- C2 ---------------------------------------------------------------- *)

\* C2: set_data_type with a kind outside the seven defined kinds fails with
\* InvalidKindError, so the kind of every cell is always one of the seven.
C2_KindAlwaysDefined ==
    /\ (last.op = "set_data_type" /\ last.ival \notin Kinds)
          => last.err = "InvalidKindError"
    /\ \A c \in Cells : data[c].type \in Kinds

(* ---- C3 ---------------------------------------------------------------- *)

\* C3: set_data_begin and set_data_end fail with InvalidRangeError for a
\* negative offset or one that makes begin > end, so 0 <= begin <= end holds
\* in every cell after any sequence of these calls.
C3_RangeOrdered ==
    /\ (last.op \in {"set_data_begin", "set_data_end"}
           /\ (last.ret < 0 \/ data[last.obj].begin > data[last.obj].end))
          => last.err = "InvalidRangeError"
    /\ \A c \in Cells :
          data[c].type = MULTIFIELD
             => (0 <= data[c].begin /\ data[c].begin <= data[c].end)

(* ---- C4 ---------------------------------------------------------------- *)

\* C4 as stated: get_data_length returns end - begin + 1 for a MULTIFIELD
\* cell and 0 for a cell of any other kind.
C4_LengthZeroUnlessMultifield ==
    last.op = "get_data_length"
       => last.ret = IF data[last.obj].type = MULTIFIELD
                     THEN data[last.obj].end - data[last.obj].begin + 1
                     ELSE 0

\* C4 as amended: get_data_length returns end - begin + 1 for every cell,
\* whatever its kind and whatever begin and end hold.
C4_LengthIsSpan ==
    last.op = "get_data_length"
       => last.ret = data[last.obj].end - data[last.obj].begin + 1

\* a cell that is not a MULTIFIELD was asked its length, and the answer
\* was not 0
C4_Witness ==
    /\ last.op = "get_data_length"
    /\ data[last.obj].type # MULTIFIELD
    /\ data[last.obj].end # data[last.obj].begin
    /\ last.ret # 0

(* ---- C5 ---------------------------------------------------------------- *)

\* C5: get_multifield_length equals the length recorded at construction and
\* the number of fields held, after any sequence of set_multifield_value and
\* set_multifield_type calls.
C5_LengthStable ==
    /\ \A m \in Multifields :
          mfLength[m] = MFLen0(m) /\ mfLength[m] = Len(mfFields[m])
    /\ last.op = "get_multifield_length" => last.ret = MFLen0(last.obj)

(* ---- C6 ---------------------------------------------------------------- *)

\* C6: set_data_value(cell, v) followed by get_data_value(cell) returns v,
\* and set_multifield_value(mf, i, v) with i in [1, length] followed by
\* get_multifield_value(mf, i) returns v.
C6_RoundTrip ==
    [][/\ (last.op = "set_data_value" /\ last'.op = "get_data_value"
             /\ last'.obj = last.obj)
          => last'.rref = last.ref
       /\ (last.op = "set_multifield_value" /\ last'.op = "get_multifield_value"
             /\ last'.obj = last.obj /\ last'.idx = last.idx
             /\ last.idx \in 1 .. MFLen0(last.obj))
          => last'.rref = last.ref]_vars

\* a pointer stored in the last field of a multifield was read back
C6_Witness ==
    /\ last.op = "get_multifield_value"
    /\ last.idx = MFLen0(last.obj)
    /\ last.rref \in HashNodes

(* ---- C7 ---------------------------------------------------------------- *)

\* C7 as stated: set_data_type with a valid kind returns the kind the cell
\* held before the call, and the cell then holds the new kind.
C7_ReturnsPreviousKind ==
    [][(last'.op = "set_data_type" /\ last'.ival \in Kinds)
         => /\ last'.ret = GetpType(data[last'.obj])
            /\ GetpType(data'[last'.obj]) = last'.ival]_vars

\* C7 as amended: set_data_type with a valid kind returns the kind just
\* assigned, and the cell then holds that kind.
C7_ReturnsNewKind ==
    (last.op = "set_data_type" /\ last.ival \in Kinds)
       => /\ last.ret = last.ival
          /\ ToShort(data[last.obj].type) = last.ival

\* the first call of a run made a FLOAT cell (type code 0) a MULTIFIELD, and
\* returned MULTIFIELD
C7_Witness ==
    /\ ops = 1
    /\ last.op = "set_data_type"
    /\ last.ival = MULTIFIELD
    /\ last.ret = MULTIFIELD
    /\ data[last.obj].type = MULTIFIELD

(* ---- C8 ---------------------------------------------------------------- *)

\* C8: a store into a multifield that more than one cell refers to is not
\* observed through the other cells: the fields they reach stay as they were.
C8_CopyOnWrite ==
    [][(last'.op \in MFSetters /\ Cardinality(Owners(last'.obj)) >= 2)
         => \A c \in Owners(last'.obj) :
               mfFields'[data'[c].value] = mfFields[data[c].value]]_vars

(* ---- C9 ---------------------------------------------------------------- *)

\* C9: the reference count of every hash node equals the number of cells
\* whose value refers to it.
C9_CountMatchesReferences ==
    \A h \in HashNodes : count[h] = Cardinality({c \in Cells : data[c].value = h})

(* ---- C10 --------------------------------------------------------------- *)

\* what a call on a cell may change: the one field the setter names
DataFrame(op, c) ==
    /\ \A d \in Cells \ {c} : data'[d] = data[d]
    /\ op # "set_data_type" => data'[c].type = data[c].type
    /\ op # "set_data_value" => data'[c].value = data[c].value
    /\ op # "set_data_begin" => data'[c].begin = data[c].begin
    /\ op # "set_data_end" => data'[c].end = data[c].end
    /\ UNCHANGED <<mfLength, mfFields, count, implied>>

\* what a call on a multifield may change: the one field at the index
MFFrame(op, m, index) ==
    /\ \A n \in Multifields \ {m} : mfFields'[n] = mfFields[n]
    /\ Len(mfFields'[m]) = Len(mfFields[m])
    /\ \A i \in 1 .. Len(mfFields[m]) :
          /\ (i # index \/ op # "set_multifield_type")
                => mfFields'[m][i].type = mfFields[m][i].type
          /\ (i # index \/ op # "set_multifield_value")
                => mfFields'[m][i].value = mfFields[m][i].value
    /\ UNCHANGED <<data, mfLength, count, implied>>

\* C10: every setter changes only the field it names and every getter
\* changes nothing.
C10_Frame ==
    [][/\ last'.op \in Getters
          => UNCHANGED <<data, mfLength, mfFields, count, implied>>
       /\ last'.op \in DataSetters => DataFrame(last'.op, last'.obj)
       /\ last'.op \in MFSetters => MFFrame(last'.op, last'.obj, last'.idx)]_vars

====
